---------------------------- MODULE Spec2Model ----------------------------
(***************************************************************************)
(* A model of the taxicab-map crate: the coordinate transform, the dense   *)
(* grid store (TaxicabMap), the diamond ring enumerator (DiamondPoints)    *)
(* and the action field solver (ActionFieldSolver).                        *)
(*                                                                         *)
(* Four state machines share the module, one per component:                *)
(*   TransformSpec  absolute_to_relative / relative_to_absolute / get_point*)
(*   StoreSpec      TaxicabMap::extend, the setters and the cell writes    *)
(*   DiamondSpec    DiamondPoints::next                                    *)
(*   Spec           TaxicabMap::action_field and ActionFieldSolver::solve  *)
(* A machine leaves the variables of the other three at their idle value.  *)
(*                                                                         *)
(* Costs are f64 in the source; the model keeps the whole numbers and NaN,  *)
(* with the arithmetic and the comparisons f64 gives them.                 *)
(***************************************************************************)
EXTENDS Integers, Sequences, FiniteSets

VARIABLES
    map,            \* TaxicabMap: dense, cycle_x, cycle_y, origin_x, origin_y
    probe,          \* transform harness: coordinate looked up and the result
    last,           \* store harness: the last store operation and the store before it
    iter,           \* DiamondPoints: x, y, n, index
    yielded,        \* every Some(..) the iterator returned, in order
    nones,          \* how many times the iterator returned None
    start,          \* the start point given to action_field
    open,           \* ActionFieldSolver.open   : Point -> cost
    close,          \* ActionFieldSolver.close  : Point -> cost
    passable,       \* ActionFieldSolver.passable (which callback is installed)
    action_cost,    \* ActionFieldSolver.action_cost (which callback is installed)
    action_points,  \* ActionFieldSolver.action_points (the budget)
    calls,          \* the action_cost invocations of the last loop iteration
    output,         \* what solve() returned, as ascending cost classes
    pc              \* position of the solver: built, solving, done, panic, sort_panic

vars == <<map, probe, last, iter, yielded, nones, start, open, close,
          passable, action_cost, action_points, calls, output, pc>>

storeVars    == <<map>>
probeVars    == <<probe>>
historyVars  == <<last>>
diamondVars  == <<iter, yielded, nones>>
solverVars   == <<start, open, close, passable, action_cost, action_points,
                  calls, output, pc>>

-----------------------------------------------------------------------------
(* Bounds of the model *)

\* largest width / height of a store drawn by TransformSpec
MaxExtent == 4
\* largest width / height of a store drawn by the solver and by StoreSpec
MaxDim == 2
\* largest size argument of extend
MaxGrow == 2
\* how many extend calls StoreSpec follows
MaxExtends == 2
\* largest radius of a diamond ring
MaxRadius == 3
\* how many next() calls are followed after the ring is exhausted
MaxExtraCalls == 2
\* largest budget given to action_field
MaxBudget == 2
\* the solver's coordinates are isize; the model keeps MinCoord..MaxCoord
MaxCoord == 5
\* largest multiple of the extent a lookup is shifted by
MaxShift == 2
\* how many set_point / points_mut calls StoreSpec follows
MaxWrites == 1

MinCoord == -MaxCoord - 1

\* Option<T>: None, or Some(v) holding v
None == <<>>

Some(v) == <<v>>

Unwrap(o) == o[1]

-----------------------------------------------------------------------------
(* Point and Direction *)

Point(x, y) == <<x, y>>

\* Direction::X(true), X(false), Y(true), Y(false)
Directions == <<"X+", "X-", "Y+", "Y-">>

DirectionSet == {Directions[i] : i \in 1..Len(Directions)}

IsIncrease(direction) == direction \in {"X+", "Y+"}

IsX(direction) == direction \in {"X+", "X-"}

\* Point::go / Direction::step : offset by exactly one cell
go(point, direction) ==
    CASE direction = "X+" -> Point(point[1] + 1, point[2])
      [] direction = "X-" -> Point(point[1] - 1, point[2])
      [] direction = "Y+" -> Point(point[1], point[2] + 1)
      [] direction = "Y-" -> Point(point[1], point[2] - 1)

\* derived Ord of Point: lexicographic by (x, y)
PointLess(p, q) == p[1] < q[1] \/ (p[1] = q[1] /\ p[2] < q[2])

Abs(v) == IF v < 0 THEN -v ELSE v

Taxicab(p, q) == Abs(p[1] - q[1]) + Abs(p[2] - q[2])

-----------------------------------------------------------------------------
(* Coordinate transform *)

\* the truncating remainder (the sign of the dividend), as the % of isize
rem_truncating(a, b) == IF a >= 0 THEN a % b ELSE -((-a) % b)

\* isize::rem_euclid for a positive divisor: the remainder in 0..b-1
rem_euclid(a, b) == a % b

\* the range test with the upper end included
OutOfRangeInclusive(v, extent) == v < 0 \/ v > extent

\* the test of a non-cyclic axis: x < 0 || x >= w
OutOfRange(v, extent) == v < 0 \/ v >= extent

absolute_to_relative(x, y, origin_x, origin_y, w, h, cycle_x, cycle_y) ==
    LET rx == x - origin_x
        ry == y - origin_y
    IN  IF ~cycle_x /\ OutOfRange(rx, w) THEN None
        ELSE IF ~cycle_y /\ OutOfRange(ry, h) THEN None
        ELSE Some(<<IF cycle_x THEN rem_euclid(rx, w) ELSE rx,
                    IF cycle_y THEN rem_euclid(ry, h) ELSE ry>>)

relative_to_absolute(x, y, origin_x, origin_y) == <<x + origin_x, y + origin_y>>

-----------------------------------------------------------------------------
(* Dense grid store *)

Indexes(w, h) == (0..(w - 1)) \X (0..(h - 1))

\* Array2::from_shape_fn((w, h), |_| fill.clone())
Filled(w, h, fill) == [w |-> w, h |-> h, at |-> [ij \in Indexes(w, h) |-> fill]]

rectangle(width, height, fill) ==
    [dense |-> Filled(width, height, fill),
     cycle_x |-> FALSE, cycle_y |-> FALSE, origin_x |-> 0, origin_y |-> 0]

square(width, fill) == rectangle(width, width, fill)

with_cycle(m, cycle_x, cycle_y) == [m EXCEPT !.cycle_x = cycle_x, !.cycle_y = cycle_y]

set_origin(m, x, y) == [m EXCEPT !.origin_x = x, !.origin_y = y]

\* set_origin, then the store handed back
with_origin(m, x, y) == set_origin(m, x, y)

get_isize(m) == <<m.dense.w, m.dense.h>>

\* the storage index get_point / mut_point / has_point resolve (x, y) to
IndexOf(m, x, y) ==
    absolute_to_relative(x, y, m.origin_x, m.origin_y,
                         get_isize(m)[1], get_isize(m)[2], m.cycle_x, m.cycle_y)

has_point(m, x, y) == IndexOf(m, x, y) # None

\* the storage cell get_point / mut_point hand out a reference to:
\* Array2::get and get_mut answer None for an index outside the array
CellOf(m, x, y) ==
    LET ij == IndexOf(m, x, y)
    IN  IF ij = None \/ Unwrap(ij) \notin DOMAIN m.dense.at THEN None ELSE ij

get_point(m, x, y) ==
    IF CellOf(m, x, y) = None THEN None
    ELSE Some(m.dense.at[Unwrap(CellOf(m, x, y))])

\* the cell mut_point hands out a mutable reference to, or None
mut_point(m, x, y) == CellOf(m, x, y)

\* the store after set_point(x, y, value); unchanged when there is no cell
set_point(m, x, y, value) ==
    IF mut_point(m, x, y) = None THEN m
    ELSE [m EXCEPT !.dense.at[Unwrap(mut_point(m, x, y))] = value]

\* what set_point(x, y, value) returns
set_point_ok(m, x, y) == mut_point(m, x, y) # None

\* the value the caller writes at absolute (x, y) to tell the cells apart
Label(x, y) == <<"cell", x, y>>

\* points_mut, the caller writing Label(x, y) through every reference handed
\* out, (x, y) being the absolute coordinate relative_to_absolute gives
points_mut(m) ==
    [m EXCEPT !.dense.at =
        [ij \in DOMAIN m.dense.at |->
            Label(relative_to_absolute(ij[1], ij[2], m.origin_x, m.origin_y)[1],
                  relative_to_absolute(ij[1], ij[2], m.origin_x, m.origin_y)[2])]]

-----------------------------------------------------------------------------
(* Idle values: what a machine leaves the other machines' variables at *)

IdleMap == rectangle(1, 1, 0)

IdleProbe == [op |-> "idle"]

IdleLast == [op |-> "idle"]

IdleIter == [x |-> 0, y |-> 0, n |-> 0, index |-> 0]

EmptyMap == [p \in {} |-> 0]

ProbeIdle == probe = IdleProbe

HistoryIdle == last = IdleLast

DiamondIdle == iter = IdleIter /\ yielded = <<>> /\ nones = 0

SolverIdle ==
    /\ start = Point(0, 0) /\ open = EmptyMap /\ close = EmptyMap
    /\ passable = "idle" /\ action_cost = "idle" /\ action_points = 0
    /\ calls = {} /\ output = <<>> /\ pc = "idle"

-----------------------------------------------------------------------------
(* TransformSpec: lookups through the coordinate transform *)

TOrigins == {<<0, 0>>, <<-1, 2>>}

\* the absolute coordinates a lookup walks over
TWindow == (-(MaxExtent + 1))..(MaxExtent + 1)

TShifts == ((-MaxShift)..MaxShift) \ {0}

\* one lookup of (x, y): the index absolute_to_relative gives and the cell
\* get_point resolves; ref is what the lookup is compared with
Lookup(m, x, y, op, ref) ==
    [op |-> op, x |-> x, y |-> y, rel |-> IndexOf(m, x, y),
     cell |-> CellOf(m, x, y), ref |-> ref]

TransformInit ==
    /\ \E w \in 1..MaxExtent, h \in 1..MaxExtent, cx \in BOOLEAN, cy \in BOOLEAN,
          o \in TOrigins :
          map = with_origin(with_cycle(rectangle(w, h, 0), cx, cy), o[1], o[2])
    /\ probe = Lookup(map, map.origin_x, map.origin_y, "get", None)
    /\ HistoryIdle /\ DiamondIdle /\ SolverIdle

\* get_point of the neighbouring coordinate
TStep(direction) ==
    LET p == go(Point(probe.x, probe.y), direction)
    IN  /\ p[1] \in TWindow /\ p[2] \in TWindow
        /\ probe' = Lookup(map, p[1], p[2], "get", None)
        /\ UNCHANGED <<storeVars, historyVars, diamondVars, solverVars>>

\* get_point of the coordinate moved by k extents along x
TShiftX(k) ==
    /\ probe.x \in TWindow /\ probe.y \in TWindow
    /\ probe' = Lookup(map, probe.x + k * get_isize(map)[1], probe.y, "shift_x",
                       [rel |-> probe.rel, cell |-> probe.cell])
    /\ UNCHANGED <<storeVars, historyVars, diamondVars, solverVars>>

\* get_point of the coordinate moved by k extents along y
TShiftY(k) ==
    /\ probe.x \in TWindow /\ probe.y \in TWindow
    /\ probe' = Lookup(map, probe.x, probe.y + k * get_isize(map)[2], "shift_y",
                       [rel |-> probe.rel, cell |-> probe.cell])
    /\ UNCHANGED <<storeVars, historyVars, diamondVars, solverVars>>

\* relative_to_absolute of a valid index, then the transform forward
TRoundTrip(i, j) ==
    LET a == relative_to_absolute(i, j, map.origin_x, map.origin_y)
    IN  /\ <<i, j>> \in DOMAIN map.dense.at
        /\ probe' = Lookup(map, a[1], a[2], "round_trip", <<i, j>>)
        /\ UNCHANGED <<storeVars, historyVars, diamondVars, solverVars>>

TransformNext ==
    \/ \E d \in DirectionSet : TStep(d)
    \/ \E k \in TShifts : TShiftX(k)
    \/ \E k \in TShifts : TShiftY(k)
    \/ \E i \in 0..(MaxExtent - 1), j \in 0..(MaxExtent - 1) : TRoundTrip(i, j)

TransformSpec == TransformInit /\ [][TransformNext]_vars

\* the coordinate lies in [origin, origin + extent) on its axis
XInside == map.origin_x <= probe.x /\ probe.x < map.origin_x + map.dense.w

YInside == map.origin_y <= probe.y /\ probe.y < map.origin_y + map.dense.h

\* C8: with wrap enabled on an axis, a lookup of c + k*W gives the same index
\* and the same storage cell as the lookup of c, for every k # 0 of either
\* sign; on a store with wrap_x, width 4 and origin (0,0), get_point(4, 0)
\* resolves to the cell of get_point(0, 0), which is cell (0, 0).
WrapInvariance ==
    /\ probe.op = "shift_x" /\ map.cycle_x
          => probe.rel = probe.ref.rel /\ probe.cell = probe.ref.cell
    /\ probe.op = "shift_y" /\ map.cycle_y
          => probe.rel = probe.ref.rel /\ probe.cell = probe.ref.cell
    /\ (probe.op # "idle" /\ map.cycle_x /\ map.dense.w = 4
        /\ map.origin_x = 0 /\ map.origin_y = 0 /\ probe.x = 4 /\ probe.y = 0)
          => probe.cell = Some(<<0, 0>>) /\ CellOf(map, 0, 0) = Some(<<0, 0>>)

\* C8 happens: (0,0) was looked up, then (4,0), on the width-4 wrap_x store
WrapInvarianceWitness ==
    /\ probe.op = "shift_x" /\ map.cycle_x /\ map.dense.w = 4
    /\ map.origin_x = 0 /\ map.origin_y = 0 /\ probe.x = 4 /\ probe.y = 0
    /\ probe.ref.cell = Some(<<0, 0>>) /\ probe.cell = Some(<<0, 0>>)

\* C9: a non-wrapping axis whose coordinate is outside [origin, origin+extent)
\* makes absolute_to_relative answer None, and None is answered only for that
\* reason; with both axes non-wrapping and both coordinates inside, the answer
\* is (x - origin_x, y - origin_y), a valid index; and relative_to_absolute
\* followed by absolute_to_relative gives back every valid index.
BoundsAndRoundTrip ==
    probe.op # "idle" =>
        /\ ~map.cycle_x /\ ~XInside => probe.rel = None
        /\ ~map.cycle_y /\ ~YInside => probe.rel = None
        /\ probe.rel = None =>
              (~map.cycle_x /\ ~XInside) \/ (~map.cycle_y /\ ~YInside)
        /\ ~map.cycle_x /\ ~map.cycle_y /\ XInside /\ YInside =>
              /\ probe.rel = Some(<<probe.x - map.origin_x, probe.y - map.origin_y>>)
              /\ Unwrap(probe.rel) \in Indexes(map.dense.w, map.dense.h)
        /\ probe.op = "round_trip" => probe.rel = Some(probe.ref)

\* C9 happens: index (1,1) of a non-wrapping store with origin (-1,2) came back
BoundsAndRoundTripWitness ==
    /\ probe.op = "round_trip" /\ ~map.cycle_x /\ ~map.cycle_y
    /\ map.origin_x = -1 /\ map.origin_y = 2
    /\ probe.ref = <<1, 1>> /\ probe.x = 0 /\ probe.y = 3
    /\ probe.rel = Some(<<1, 1>>)

-----------------------------------------------------------------------------
(* DiamondSpec: the diamond ring enumerator *)

DCenters == (-1)..1

DiamondPoints_new(x, y, n) == [x |-> x, y |-> y, n |-> n, index |-> 0]

\* next() with the last edge running one index too far
DiamondPoints_next_closing(it) ==
    IF it.n = 0 /\ it.index = 0 THEN Some(<<it.x, it.y>>)
    ELSE IF it.index < it.n
        THEN Some(<<it.x + it.n - it.index, it.y + it.index>>)
    ELSE IF it.index < 2 * it.n
        THEN Some(<<it.x - (it.index - it.n), it.y + it.n - (it.index - it.n)>>)
    ELSE IF it.index < 3 * it.n
        THEN Some(<<it.x - it.n + (it.index - 2 * it.n), it.y - (it.index - 2 * it.n)>>)
    ELSE IF it.index <= 4 * it.n
        THEN Some(<<it.x + (it.index - 3 * it.n), it.y - it.n + (it.index - 3 * it.n)>>)
    ELSE None

\* what DiamondPoints::next returns for the iterator it (index not yet advanced)
DiamondPoints_next(it) ==
    IF it.n = 0 /\ it.index = 0 THEN Some(<<it.x, it.y>>)
    ELSE IF it.index < it.n
        THEN Some(<<it.x + it.n - it.index, it.y + it.index>>)
    ELSE IF it.index < 2 * it.n
        THEN Some(<<it.x - (it.index - it.n), it.y + it.n - (it.index - it.n)>>)
    ELSE IF it.index < 3 * it.n
        THEN Some(<<it.x - it.n + (it.index - 2 * it.n), it.y - (it.index - 2 * it.n)>>)
    ELSE IF it.index < 4 * it.n
        THEN Some(<<it.x + (it.index - 3 * it.n), it.y - it.n + (it.index - 3 * it.n)>>)
    ELSE None

DiamondInit ==
    /\ \E x \in DCenters, y \in DCenters, n \in 0..MaxRadius :
          iter = DiamondPoints_new(x, y, n)
    /\ yielded = <<>> /\ nones = 0
    /\ map = IdleMap /\ ProbeIdle /\ HistoryIdle /\ SolverIdle

\* one call of next(): the result is recorded, self.index += 1
DNext ==
    /\ iter.index < 4 * iter.n + 1 + MaxExtraCalls
    /\ LET out == DiamondPoints_next(iter)
       IN  /\ yielded' = IF out = None THEN yielded ELSE Append(yielded, Unwrap(out))
           /\ nones' = IF out = None THEN nones + 1 ELSE nones
    /\ iter' = [iter EXCEPT !.index = iter.index + 1]
    /\ UNCHANGED <<storeVars, probeVars, historyVars, solverVars>>

DiamondNext == DNext

DiamondSpec == DiamondInit /\ [][DiamondNext]_vars

RingSize(n) == IF n = 0 THEN 1 ELSE 4 * n

Min(a, b) == IF a < b THEN a ELSE b

\* q is one diagonal step away from p
Diagonal(p, q) == Abs(p[1] - q[1]) = 1 /\ Abs(p[2] - q[2]) = 1

\* C7: after any number of next() calls the iterator has yielded the first
\* min(calls, 4n) points of the ring (1 point, the center, for n = 0) and None
\* for every later call; the points are pairwise distinct, each at taxicab
\* distance n from the center, they start at (x+n, y), pass (x, y+n), (x-n, y)
\* and (x, y-n) at positions n, 2n and 3n, move one diagonal step at a time,
\* and the last one is one diagonal step before (x+n, y).
DiamondRing ==
    LET n == iter.n
        c == <<iter.x, iter.y>>
        len == Len(yielded)
    IN  iter # IdleIter =>
        /\ len = Min(iter.index, RingSize(n))
        /\ nones = iter.index - len
        /\ \A k \in 1..len : Taxicab(yielded[k], c) = n
        /\ \A k \in 1..len : \A l \in 1..len : yielded[k] = yielded[l] => k = l
        /\ n = 0 /\ len >= 1 => yielded = <<c>>
        /\ n >= 1 /\ len >= 1 => yielded[1] = <<c[1] + n, c[2]>>
        /\ n >= 1 /\ len >= n + 1 => yielded[n + 1] = <<c[1], c[2] + n>>
        /\ n >= 1 /\ len >= 2 * n + 1 => yielded[2 * n + 1] = <<c[1] - n, c[2]>>
        /\ n >= 1 /\ len >= 3 * n + 1 => yielded[3 * n + 1] = <<c[1], c[2] - n>>
        /\ \A k \in 1..(len - 1) : Diagonal(yielded[k], yielded[k + 1])
        /\ n >= 1 /\ len = 4 * n => Diagonal(yielded[len], yielded[1])

\* C7 happens: a ring of radius 2 was enumerated (8 points) and next() was
\* called twice more, answering None both times
DiamondRingWitness ==
    /\ iter.n = 2 /\ iter.index = 10 /\ Len(yielded) = 8 /\ nones = 2
    /\ yielded[8] = <<iter.x + 1, iter.y - 1>>

-----------------------------------------------------------------------------
(* StoreSpec: growing the store *)

\* where extend moves the cell at index ij of the old array
ExtendTarget(direction, size, ij) ==
    CASE direction = "X+" -> <<ij[1] + size, ij[2]>>
      [] direction = "X-" -> <<ij[1], ij[2]>>
      [] direction = "Y+" -> <<ij[1], ij[2] + size>>
      [] direction = "Y-" -> <<ij[1], ij[2]>>

extend(m, direction, size, fill) ==
    LET x == m.dense.w
        y == m.dense.h
        w == IF IsX(direction) THEN x + size ELSE x
        h == IF IsX(direction) THEN y ELSE y + size
        moved(ij) == {old \in Indexes(x, y) : ExtendTarget(direction, size, old) = ij}
        new == [ij \in Indexes(w, h) |->
                  IF moved(ij) = {} THEN fill
                  ELSE m.dense.at[CHOOSE old \in moved(ij) : TRUE]]
    IN  [m EXCEPT !.dense = [w |-> w, h |-> h, at |-> new]]

set_cycle(m, cycle_x, cycle_y) == [m EXCEPT !.cycle_x = cycle_x, !.cycle_y = cycle_y]

shift_origin(m, x, y) ==
    [m EXCEPT !.origin_x = m.origin_x + x, !.origin_y = m.origin_y + y]

\* rectangle(w, h, fill), then every cell written through points_mut
Labelled(w, h) == points_mut(rectangle(w, h, <<"blank">>))

\* the absolute coordinates set_point is called with
SPoints == ((-1)..MaxDim) \X ((-1)..MaxDim)

SOrigins == (-1)..1

StoreInit ==
    /\ \E w \in 1..MaxDim, h \in 1..MaxDim : map = Labelled(w, h)
    /\ last = [op |-> "new", extends |-> 0, writes |-> 0]
    /\ ProbeIdle /\ DiamondIdle /\ SolverIdle

Extend(direction, size, fill) ==
    /\ last.extends < MaxExtends
    /\ map' = extend(map, direction, size, fill)
    /\ last' = [op |-> "extend", extends |-> last.extends + 1, writes |-> last.writes,
                direction |-> direction, size |-> size, fill |-> fill, before |-> map]
    /\ UNCHANGED <<probeVars, diamondVars, solverVars>>

SetCycle(cycle_x, cycle_y) ==
    /\ map' = set_cycle(map, cycle_x, cycle_y)
    /\ last' = [op |-> "set_cycle", extends |-> last.extends, writes |-> last.writes]
    /\ UNCHANGED <<probeVars, diamondVars, solverVars>>

ShiftOrigin(x, y) ==
    /\ map.origin_x + x \in SOrigins /\ map.origin_y + y \in SOrigins
    /\ map' = shift_origin(map, x, y)
    /\ last' = [op |-> "shift_origin", extends |-> last.extends, writes |-> last.writes]
    /\ UNCHANGED <<probeVars, diamondVars, solverVars>>

SetOrigin(x, y) ==
    /\ map' = set_origin(map, x, y)
    /\ last' = [op |-> "set_origin", extends |-> last.extends, writes |-> last.writes]
    /\ UNCHANGED <<probeVars, diamondVars, solverVars>>

\* set_point(x, y, value), which goes through mut_point; the answer is kept
SetPoint(x, y, value) ==
    /\ last.writes < MaxWrites
    /\ map' = set_point(map, x, y, value)
    /\ last' = [op |-> "set_point", extends |-> last.extends,
                writes |-> last.writes + 1, ok |-> set_point_ok(map, x, y)]
    /\ UNCHANGED <<probeVars, diamondVars, solverVars>>

\* points_mut, every cell written with the label of its absolute coordinate
PointsMut ==
    /\ last.writes < MaxWrites
    /\ map' = points_mut(map)
    /\ last' = [op |-> "points_mut", extends |-> last.extends,
                writes |-> last.writes + 1]
    /\ UNCHANGED <<probeVars, diamondVars, solverVars>>

StoreNext ==
    \/ \E d \in DirectionSet, size \in 1..MaxGrow : Extend(d, size, <<"fill">>)
    \/ \E cx \in BOOLEAN, cy \in BOOLEAN : SetCycle(cx, cy)
    \/ \E x \in SOrigins, y \in SOrigins : SetOrigin(x, y)
    \/ \E p \in SPoints : SetPoint(p[1], p[2], <<"set">>)
    \/ PointsMut
    \/ \E x \in {-1, 1} : ShiftOrigin(x, 0)
    \/ \E y \in {-1, 1} : ShiftOrigin(0, y)

StoreSpec == StoreInit /\ [][StoreNext]_vars

\* the index of a cell along the axis of the direction
Along(direction, ij) == IF IsX(direction) THEN ij[1] ELSE ij[2]

\* the extent of the array along the axis of the direction
ExtentAlong(direction, dense) == IF IsX(direction) THEN dense.w ELSE dense.h

\* ij moved up by size along the axis of the direction
ShiftedUp(direction, size, ij) ==
    IF IsX(direction) THEN <<ij[1] + size, ij[2]>> ELSE <<ij[1], ij[2] + size>>

\* C10: after extend(direction, size, fill) the array is size longer along the
\* direction's axis; for X(+) and Y(+) every old cell keeps its index and the
\* fill cells have the highest indices of the axis; for X(-) and Y(-) every old
\* cell's index on the axis is size higher and the fill cells have the lowest
\* indices; origin and wrap flags are as before.
ExtendAtSignedEdge ==
    last.op = "extend" =>
        LET d == last.direction
            old == last.before.dense
            new == map.dense
        IN  /\ ExtentAlong(d, new) = ExtentAlong(d, old) + last.size
            /\ new.w * new.h = Cardinality(DOMAIN new.at)
            /\ map.origin_x = last.before.origin_x
            /\ map.origin_y = last.before.origin_y
            /\ map.cycle_x = last.before.cycle_x
            /\ map.cycle_y = last.before.cycle_y
            /\ IsIncrease(d) =>
                  /\ \A ij \in DOMAIN old.at : new.at[ij] = old.at[ij]
                  /\ \A ij \in DOMAIN new.at :
                        Along(d, ij) >= ExtentAlong(d, old) => new.at[ij] = last.fill
            /\ ~IsIncrease(d) =>
                  /\ \A ij \in DOMAIN old.at :
                        new.at[ShiftedUp(d, last.size, ij)] = old.at[ij]
                  /\ \A ij \in DOMAIN new.at :
                        Along(d, ij) < last.size => new.at[ij] = last.fill

-----------------------------------------------------------------------------
(* Spec: the action field solver *)

\* the callbacks a caller installs with with_passable
PassableKinds == {"all", "none", "value"}

\* f64 costs: a whole number n is F(n), and NaN
F(n) == <<n>>
NaN == <<>>
IsNaN(a) == a = NaN

\* a + b on f64: NaN as soon as one side is NaN
Add(a, b) == IF IsNaN(a) \/ IsNaN(b) THEN NaN ELSE F(a[1] + b[1])

\* a > b, a >= b, a <= b on f64: false as soon as one side is NaN
Gt(a, b) == ~IsNaN(a) /\ ~IsNaN(b) /\ a[1] > b[1]
Ge(a, b) == ~IsNaN(a) /\ ~IsNaN(b) /\ a[1] >= b[1]
Le(a, b) == ~IsNaN(a) /\ ~IsNaN(b) /\ a[1] <= b[1]

\* the callbacks a caller installs with with_cost
CostKinds == {"zero", "unit", "value", "coord", "negative", "nan", "hole"}

\* (self.passable)(&point, value); "all" is the default |_, _| true
PassableFn(kind, point, value) ==
    CASE kind = "all" -> TRUE
      [] kind = "none" -> FALSE
      [] kind = "value" -> value = 0

\* (self.action_cost)(&point, value); "zero" is the default |_, _| 0.0
CostFn(kind, point, value) ==
    CASE kind = "zero" -> F(0)
      [] kind = "unit" -> F(1)
      [] kind = "value" -> F(value)
      [] kind = "coord" -> F(1 + ((point[1] + point[2]) % 2))
      [] kind = "negative" -> F(-1)
      [] kind = "nan" -> NaN
      [] kind = "hole" -> IF value = 0 THEN F(1) ELSE NaN

\* isize arithmetic of Point::go for the four directions: a sum leaves
\* MinCoord..MaxCoord
Overflows(point) ==
    \E d \in DirectionSet :
        \/ go(point, d)[1] \notin MinCoord..MaxCoord
        \/ go(point, d)[2] \notin MinCoord..MaxCoord

\* BTreeMap::insert
Insert(f, k, v) == [p \in DOMAIN f \cup {k} |-> IF p = k THEN v ELSE f[p]]

\* BTreeMap::pop_first takes the entry with the least key
FirstKey(f) == CHOOSE p \in DOMAIN f : \A q \in DOMAIN f : p = q \/ PointLess(p, q)

Without(f, k) == [p \in DOMAIN f \ {k} |-> f[p]]

\* the closed test that never finds the key
NeverClosed(key) == FALSE

\* self.close.contains_key(&key)
IsClosed(key) == key \in DOMAIN close

\* the callback handed the neighbour key
CostArgumentKey(point, key) == key

\* the coordinate neighbors() hands to action_cost: (self.action_cost)(point, value)
CostArgument(point, key) == point

\* one turn of the loop of neighbors(): the candidate for one direction, or None
Neighbor(point, direction) ==
    LET key == go(point, direction)
        value == get_point(map, key[1], key[2])
    IN  IF value = None THEN None
        ELSE IF ~PassableFn(passable, key, Unwrap(value)) THEN None
        ELSE IF IsClosed(key) THEN None
        ELSE Some([key |-> key, argument |-> CostArgument(point, key),
                   value |-> Unwrap(value),
                   cost |-> CostFn(action_cost, CostArgument(point, key), Unwrap(value))])

\* neighbors(): the candidates in the order of Direction::all()
neighbors(point) ==
    LET each == [i \in 1..Len(Directions) |-> Neighbor(point, Directions[i])]
        kept == SelectSeq(each, LAMBDA n : n # None)
    IN  [i \in 1..Len(kept) |-> Unwrap(kept[i])]

\* the prune test looking at the last edge alone
PrunedByEdge(cost, neighbor_cost, budget) == Gt(neighbor_cost, budget)

\* the prune test with the budget excluded
PrunedAtBudget(cost, neighbor_cost, budget) == Ge(Add(cost, neighbor_cost), budget)

\* new_cost > self.action_points, which is false for a NaN on either side
Pruned(cost, neighbor_cost, budget) == Gt(Add(cost, neighbor_cost), budget)

\* the inserts of one turn of the while loop, in the order of neighbors()
RECURSIVE InsertAll(_, _, _)
InsertAll(f, cost, ns) ==
    IF ns = <<>> THEN f
    ELSE InsertAll(IF Pruned(cost, Head(ns).cost, action_points) THEN f
                   ELSE Insert(f, Head(ns).key, Add(cost, Head(ns).cost)),
                   cost, Tail(ns))

\* the (cost, point) pairs of f in classes of equal cost, by ascending cost
RECURSIVE CostClasses(_)
CostClasses(f) ==
    IF DOMAIN f = {} THEN <<>>
    ELSE LET least == CHOOSE c \in {f[p] : p \in DOMAIN f} :
                         \A q \in DOMAIN f : Le(c, f[q])
             tied  == {p \in DOMAIN f : f[p] = least}
         IN  <<{<<least, p>> : p \in tied}>>
                 \o CostClasses([p \in DOMAIN f \ tied |-> f[p]])

\* The closed pairs after sorted_unstable_by, which compares the costs alone
\* with partial_cmp(..).unwrap_or(Equal).  The order of pairs that compare
\* Equal is unspecified, so the result is a sequence of classes, each a set
\* of pairs: the vector solve() returns is some arrangement of each class in
\* turn.  Without NaN the classes are the equal costs in ascending order.  A
\* NaN compares Equal with every cost, the comparison is then no order and
\* the arrangement of the whole vector is unspecified: one class.
SortedByCost(f) ==
    IF DOMAIN f = {} THEN <<>>
    ELSE IF \E p \in DOMAIN f : IsNaN(f[p])
         THEN <<{<<f[p], p>> : p \in DOMAIN f}>>
         ELSE CostClasses(f)

\* the longest slice the sort of the standard library orders by insertion
\* alone; a longer one goes through the merging small sorts, which panic when
\* they see the comparison contradict itself
InsertionSortMax == 20

\* partial_cmp(..).unwrap_or(Equal) is no total order over the costs of f: a
\* NaN compares Equal with two numbers that compare Less
NotTotalOrder(f) ==
    /\ \E p \in DOMAIN f : IsNaN(f[p])
    /\ \E p, q \in DOMAIN f : ~IsNaN(f[p]) /\ ~IsNaN(f[q]) /\ f[p] # f[q]

\* sorted_unstable_by may panic ("user-provided comparison function does not
\* correctly implement a total order") instead of returning
SortMayPanic(f) == Cardinality(DOMAIN f) > InsertionSortMax /\ NotTotalOrder(f)

\* terrain of a generic store: the fill value, and at most one cell rewritten
Terrains(w, h) ==
    {rectangle(w, h, 0), rectangle(w, h, 1),
     set_point(rectangle(w, h, 0), 0, 0, 1),
     set_point(rectangle(w, h, 0), w - 1, h - 1, 1)}

SolverStores ==
    {with_cycle(m, cx, cy) :
        m \in UNION {Terrains(w, h) : w \in 1..MaxDim, h \in 1..MaxDim},
        cx \in BOOLEAN, cy \in BOOLEAN}

SolverStarts == {Point(0, 0), Point(1, 0)}

\* the budgets a caller hands to action_field
Budgets == {F(b) : b \in (-1)..MaxBudget} \cup {NaN}

\* map.action_field(start, action)
action_field(m, s, action) ==
    /\ map = m
    /\ start = s
    /\ open = Insert(EmptyMap, s, F(0))
    /\ close = EmptyMap
    /\ action_points = action
    /\ passable = "all"
    /\ action_cost = "zero"
    /\ calls = {} /\ output = <<>> /\ pc = "built"

Init ==
    /\ \/ \E m \in SolverStores, s \in SolverStarts, b \in Budgets :
             action_field(m, s, b)
       \/ action_field(square(3, 0), Point(1, 1), F(0))
       \/ action_field(square(5, 0), Point(0, 0), F(2))
       \/ action_field(set_point(square(5, 0), 2, 2, 1), Point(0, 0), NaN)
    /\ ProbeIdle /\ HistoryIdle /\ DiamondIdle

with_passable(kind) ==
    /\ pc = "built"
    /\ passable' = kind
    /\ UNCHANGED <<map, probe, last, iter, yielded, nones, start, open, close,
                   action_cost, action_points, calls, output, pc>>

with_cost(kind) ==
    /\ pc = "built"
    /\ action_cost' = kind
    /\ UNCHANGED <<map, probe, last, iter, yielded, nones, start, open, close,
                   passable, action_points, calls, output, pc>>

\* one turn of the while loop of solve(): pop_first, the inserts, close.insert
Pop ==
    /\ pc \in {"built", "solving"}
    /\ DOMAIN open # {}
    /\ ~Overflows(FirstKey(open))
    /\ LET point == FirstKey(open)
           cost == open[point]
           ns == neighbors(point)
       IN  /\ open' = InsertAll(Without(open, point), cost, ns)
           /\ close' = Insert(close, point, cost)
           /\ calls' = {[from |-> point, base |-> cost, to |-> ns[i].key,
                         argument |-> ns[i].argument, value |-> ns[i].value,
                         cost |-> ns[i].cost,
                         kept |-> ~Pruned(cost, ns[i].cost, action_points)] :
                        i \in 1..Len(ns)}
    /\ pc' = "solving"
    /\ UNCHANGED <<map, probe, last, iter, yielded, nones, start,
                   passable, action_cost, action_points, output>>

\* the turn whose point lies on the edge of the isize range: a sum of
\* Point::go overflows and solve() panics with the point popped.  (The run of a
\* build without overflow checks, which wraps around, is not followed.)
PopOverflow ==
    /\ pc \in {"built", "solving"}
    /\ DOMAIN open # {}
    /\ Overflows(FirstKey(open))
    /\ open' = Without(open, FirstKey(open))
    /\ calls' = {}
    /\ pc' = "panic"
    /\ UNCHANGED <<map, probe, last, iter, yielded, nones, start, close,
                   passable, action_cost, action_points, output>>

\* open is empty: solve() returns the closed pairs sorted by cost
Return ==
    /\ pc \in {"built", "solving"}
    /\ DOMAIN open = {}
    /\ output' = SortedByCost(close)
    /\ calls' = {}
    /\ pc' = "done"
    /\ UNCHANGED <<map, probe, last, iter, yielded, nones, start, open, close,
                   passable, action_cost, action_points>>

\* open is empty and the sort of the closed pairs panics: solve() returns
\* nothing.  Whether the sort notices the broken order depends on the path it
\* takes through the vector, so Return stays possible from the same state.
ReturnPanic ==
    /\ pc \in {"built", "solving"}
    /\ DOMAIN open = {}
    /\ SortMayPanic(close)
    /\ calls' = {}
    /\ pc' = "sort_panic"
    /\ UNCHANGED <<map, probe, last, iter, yielded, nones, start, open, close,
                   passable, action_cost, action_points, output>>

solve == Pop \/ PopOverflow \/ Return \/ ReturnPanic

Next ==
    \/ \E kind \in PassableKinds : with_passable(kind)
    \/ \E kind \in CostKinds : with_cost(kind)
    \/ Pop
    \/ PopOverflow
    \/ Return
    \/ ReturnPanic

Spec == Init /\ [][Next]_vars

\* the pairs solve() returned, as a set
Pairs == UNION {output[k] : k \in 1..Len(output)}

\* the value stored at an absolute point that has a cell
ValueAt(point) == Unwrap(get_point(map, point[1], point[2]))

\* C1: with a finite budget and a cost function that is never negative,
\* solve() comes to its end by emptying open: at every moment its loop is
\* still turning, or it has returned with open empty; it never stops with
\* points left in open.
SolveTerminates ==
    (pc # "idle" /\ ~IsNaN(action_points)
        /\ action_cost \in {"zero", "unit", "value", "coord"}) =>
        \/ pc \in {"built", "solving"}
        \/ pc = "done" /\ DOMAIN open = {}

\* C2 as stated: every pair solve() returns has cost <= budget.
CostWithinBudget ==
    pc = "done" => \A pair \in Pairs : Le(pair[1], action_points)

\* C2 as amended: every returned pair other than the start point's has
\* cost <= budget unless that cost or the budget is NaN (no returned cost
\* compares greater than the budget), and the start point's pair has cost 0.
CostWithinBudgetOrStart ==
    pc = "done" =>
        \A pair \in Pairs :
            /\ pair[2] # start =>
                  \/ IsNaN(pair[1])
                  \/ IsNaN(action_points)
                  \/ Le(pair[1], action_points)
            /\ pair[2] # start => ~Gt(pair[1], action_points)
            /\ pair[2] = start => pair[1] = F(0)

\* C2 happens: a solve with budget 1 returned the start at cost 0, a point
\* at cost 1 and a point whose cost is NaN
CostWithinBudgetWitness ==
    /\ pc = "done" /\ action_points = F(1) /\ action_cost = "hole"
    /\ <<F(0), start>> \in Pairs
    /\ \E pair \in Pairs : pair[1] = F(1) /\ pair[2] # start
    /\ \E pair \in Pairs : IsNaN(pair[1]) /\ pair[2] # start

\* C3: no returned point that has a cell fails the passability predicate, the
\* start point included.
OnlyPassablePoints ==
    pc = "done" =>
        \A pair \in Pairs :
            get_point(map, pair[2][1], pair[2][2]) # None
                => PassableFn(passable, pair[2], ValueAt(pair[2]))

\* scenario 1: 3x3 store, defaults, start (1,1), budget 0
Scenario1 ==
    /\ map = square(3, 0) /\ start = Point(1, 1) /\ action_points = F(0)
    /\ passable = "all" /\ action_cost = "zero"

\* C4 as stated: scenario 1 returns exactly the pair (0, (1,1)).
ScenarioOneOnlyStart ==
    Scenario1 /\ pc = "done" => output = <<{<<F(0), Point(1, 1)>>}>>

\* C4 as amended: scenario 1 returns nine pairs, every cell of the store at
\* cost 0.
ScenarioOneWholeGrid ==
    Scenario1 /\ pc = "done" =>
        /\ Len(output) = 1
        /\ Pairs = {<<F(0), Point(x, y)>> : x \in 0..2, y \in 0..2}

\* C4 happens: scenario 1 was solved and returned (0, (1,1)) among others
ScenarioOneWitness ==
    /\ Scenario1 /\ pc = "done" /\ <<F(0), Point(1, 1)>> \in Pairs
    /\ <<F(0), Point(2, 2)>> \in Pairs

\* C5: every invocation of the cost callback in a loop turn gets the
\* neighbour's coordinate and the value stored at the neighbour, and the cost
\* recorded in open for a kept neighbour q of the popped (p, c) is
\* c + cost(q, value at q).
CostEvaluatedAtNeighbor ==
    \A c \in calls :
        /\ c.argument = c.to
        /\ c.value = ValueAt(c.to)
        /\ c.kept =>
              open[c.to] = Add(c.base, CostFn(action_cost, c.to, ValueAt(c.to)))

\* scenario 2: 5x5 store, unit cost, start (0,0), budget 2
Scenario2 ==
    /\ map = square(5, 0) /\ start = Point(0, 0) /\ action_points = F(2)
    /\ passable = "all" /\ action_cost = "unit"

\* C6: scenario 2 returns every point of the grid within taxicab distance 2
\* of (0,0), each with its taxicab distance as cost (and no pair gives one of
\* these points another cost).
ScenarioTwoDistances ==
    Scenario2 /\ pc = "done" =>
        \A x \in 0..4, y \in 0..4 :
            x + y <= 2 =>
                /\ <<F(Taxicab(Point(x, y), start)), Point(x, y)>> \in Pairs
                /\ \A pair \in Pairs :
                      pair[2] = Point(x, y) =>
                          pair[1] = F(Taxicab(Point(x, y), start))

\* C6 happens: scenario 2 was solved, with (1,1) reached at cost 2 after its
\* entry in open was written from (0,1) and again from (1,0)
ScenarioTwoWitness ==
    /\ Scenario2 /\ pc = "done" /\ Cardinality(Pairs) = 6
    /\ <<F(2), Point(1, 1)>> \in Pairs /\ <<F(2), Point(2, 0)>> \in Pairs

=============================================================================
